---------------------------- MODULE Spec2Model ----------------------------
(* Session authentication of nextq: JWT access/refresh tokens, the user    *)
(* store, getActiveUser and the GraphQL mutations of the auth module.      *)
(* Every request runs in a slot; a slot's steps are the segments of its    *)
(* handler between two accesses to the user store (the awaits on MongoDB). *)
EXTENDS Integers, Sequences, FiniteSets, TLC

(***************************************************************************)
(* Bounds of the model                                                     *)
(***************************************************************************)
MaxRequests == 3
MaxRaceRequests == 6
MaxClockRequests == 3
MaxSecretsRequests == 3
NumSlots == 2

Slots == 1..NumSlots
Emails == {"a@x.com", "b@x.com"}
Passwords == {"pw", "other"}

(***************************************************************************)
(* Program constants                                                       *)
(***************************************************************************)
AccessTTL == 900
RefreshTTL == 604800
RefreshCookieMaxAge == 60 * 60 * 24 * 7
AccessCookieMaxAge == 60 * 60 * 15

\* Instants the clock visits: around the two expiry boundaries.
Instants == {0, AccessTTL, RefreshTTL}

VARIABLES
    users,          \* the users collection: document i has _id ObjectID(i)
    now,            \* the clock, in seconds
    accessSecret,   \* JWT_ACCESS_SECRET
    refreshSecret,  \* JWT_REFRESH_SECRET
    issued,         \* every token the server has signed so far
    req,            \* per slot: the request, its context and its response
    nreq,           \* requests received so far
    stale           \* history: refresh tokens whose count has differed from the store's

vars == <<users, now, accessSecret, refreshSecret, issued, req, nreq, stale>>

(***************************************************************************)
(* Values                                                                  *)
(***************************************************************************)
\* `undefined` for the count of an access-token payload
NoCount == -1
NoId == <<"hex", 0>>
NoToken == [userId |-> NoId, count |-> NoCount, iat |-> 0, exp |-> 0, sig |-> "absent"]
\* a string that is no JWT at all
Malformed == [userId |-> NoId, count |-> NoCount, iat |-> 0, exp |-> 0, sig |-> "malformed"]
\* a refresh-shaped token signed with a key of the client's own
Forged ==
    [userId |-> <<"hex", 1>>, count |-> 0, iat |-> 0, exp |-> 2 * RefreshTTL,
     sig |-> "attacker"]
Invalid == [userId |-> NoId, count |-> NoCount, iat |-> 0, exp |-> 0, ok |-> FALSE]

NoUser == [_id |-> 0, email |-> "", passwordHash |-> "", count |-> NoCount]
NoCookies == <<>>
NoResult == [kind |-> "none"]
NullResult == [kind |-> "null"]

\* ObjectID <-> 24-digit hex string; the string is stood for by <<"hex", n>>
ObjectID(hex) == hex[2]
toHexString(id) == <<"hex", id>>

\* bcryptjs hash / compare
hash(password) == <<"bcrypt", password>>
compare(password, passwordHash) == passwordHash = hash(password)

(***************************************************************************)
(* Token codec (jsonwebtoken sign / verify)                                *)
(***************************************************************************)
tokenGenerator(userId, count, secret, expiresIn, t) ==
    [userId |-> userId, count |-> count, iat |-> t, exp |-> t + expiresIn, sig |-> secret]

accessTokenGenerator(userId, secret, t) ==
    tokenGenerator(userId, NoCount, secret, AccessTTL, t)

refreshTokenGenerator(userId, count, secret, t) ==
    tokenGenerator(userId, count, secret, RefreshTTL, t)

\* verify without the check of the expiry
verifyIgnoringExpiry(token, secret, t) ==
    IF token.sig = secret
    THEN [userId |-> token.userId, count |-> token.count,
          iat |-> token.iat, exp |-> token.exp, ok |-> TRUE]
    ELSE Invalid

\* verify without the check of the signature
verifyAnySignature(token, secret, t) ==
    IF token.sig \notin {"absent", "malformed"} /\ t < token.exp
    THEN [userId |-> token.userId, count |-> token.count,
          iat |-> token.iat, exp |-> token.exp, ok |-> TRUE]
    ELSE Invalid

\* verify(token, secret): the payload, or Invalid where the library throws
verify(token, secret, t) ==
    IF token.sig = secret /\ t < token.exp
    THEN [userId |-> token.userId, count |-> token.count,
          iat |-> token.iat, exp |-> token.exp, ok |-> TRUE]
    ELSE Invalid

\* sign(data, secret) throws when the secret is the empty string
signThrows(secret) == secret = ""

verifyAccessToken(token, t) == verify(token, accessSecret, t)
verifyRefreshToken(token, t) == verify(token, refreshSecret, t)

signInVerifiedUser(userId, count, t) ==
    [accessToken |-> accessTokenGenerator(userId, accessSecret, t),
     refreshToken |-> refreshTokenGenerator(userId, count, refreshSecret, t)]

\* signInVerifiedUser signs with both secrets: it throws if either is empty
signInThrows == signThrows(accessSecret) \/ signThrows(refreshSecret)

\* addTokensToCookies with the two values under each other's name
addTokensToCookiesSwapped(tokens) ==
    << [name |-> "refresh-token", value |-> tokens.accessToken, maxAge |-> RefreshCookieMaxAge],
       [name |-> "access-token", value |-> tokens.refreshToken, maxAge |-> AccessCookieMaxAge] >>

addTokensToCookies(tokens) ==
    << [name |-> "refresh-token", value |-> tokens.refreshToken, maxAge |-> RefreshCookieMaxAge],
       [name |-> "access-token", value |-> tokens.accessToken, maxAge |-> AccessCookieMaxAge] >>

(***************************************************************************)
(* User model (models.ts)                                                  *)
(***************************************************************************)
\* findUserById answering with the first document whatever the id
findUserByIdFirst(id) == IF Len(users) > 0 THEN users[1] ELSE NoUser

findUserById(id) ==
    LET oid == ObjectID(id)
    IN IF oid \in 1..Len(users) THEN users[oid] ELSE NoUser

findUserByEmail(email) ==
    LET hits == {i \in 1..Len(users) : users[i].email = email}
    IN IF hits = {} THEN NoUser
       ELSE users[CHOOSE i \in hits : \A j \in hits : i <= j]

isUser(email) == findUserByEmail(email) # NoUser

\* the document createNewUser inserts; new ObjectID() is the next unused id
newUserDoc(email, password) ==
    [_id |-> Len(users) + 1, email |-> email,
     passwordHash |-> hash(password), count |-> 0]

\* updateOne({_id}, {$set: {count}}): the collection after the update
updateOneSetCount(id, count) ==
    LET oid == ObjectID(id)
    IN IF oid \in 1..Len(users)
       THEN [users EXCEPT ![oid].count = count]
       ELSE users

\* modifiedCount of that update: 1 only when a document matched and changed
modifiedCount(id, count) ==
    LET oid == ObjectID(id)
    IN IF oid \in 1..Len(users) /\ users[oid].count # count THEN 1 ELSE 0

(***************************************************************************)
(* signInHelper: the AuthPayload and the cookies written                   *)
(***************************************************************************)
\* signInHelper writing the cookies whatever the caller's flag
signInHelperAlwaysCookies(userId, count, hasRes, useCookies, t) ==
    LET tokens == signInVerifiedUser(toHexString(userId), count, t)
    IN [payload |-> [kind |-> "payload",
                     refreshToken |-> tokens.refreshToken,
                     accessToken |-> tokens.accessToken,
                     count |-> count],
        cookies |-> IF hasRes THEN addTokensToCookies(tokens) ELSE NoCookies]

signInHelper(userId, count, hasRes, useCookies, t) ==
    LET tokens == signInVerifiedUser(toHexString(userId), count, t)
    IN [payload |-> [kind |-> "payload",
                     refreshToken |-> tokens.refreshToken,
                     accessToken |-> tokens.accessToken,
                     count |-> count],
        cookies |-> IF useCookies /\ hasRes THEN addTokensToCookies(tokens) ELSE NoCookies]

Error(message) == [kind |-> "error", message |-> message]
NotAuthorised == Error("Not Authorised!")
AlreadyExists(email) == Error("User with " \o email \o " already exists")
SignError == Error("secretOrPrivateKey must have a value")

\* a resolver's call of signInHelper: its outcome, or the error sign throws
signInOrThrow(userId, count, hasRes, useCookies, t) ==
    IF signInThrows
    THEN [payload |-> SignError, cookies |-> NoCookies]
    ELSE signInHelper(userId, count, hasRes, useCookies, t)

(***************************************************************************)
(* Requests                                                                *)
(***************************************************************************)
Ops == {"me", "signUp", "signIn", "refreshTokens", "invalidateTokens"}

\* A slot holds the request's headers until getActiveUser has read them and
\* the operation's arguments from the step that reads them on.
IdleReq ==
    [pc |-> "idle", op |-> "",
     bearer |-> NoToken, accessCookie |-> NoToken, refreshCookie |-> NoToken,
     email |-> "", password |-> "", cookies |-> FALSE,
     user |-> NoUser, found |-> NoUser, data |-> Invalid,
     setCookie |-> NoCookies, result |-> NoResult]

\* what a client can put in a header, a cookie or an argument
Presentable == issued \cup {Malformed, Forged}

Init ==
    /\ users = <<>>
    /\ now = 0
    /\ accessSecret = "access-secret"
    /\ refreshSecret = "refresh-secret"
    /\ issued = {}
    /\ req = [s \in Slots |-> IdleReq]
    /\ nreq = 0
    /\ stale = {}

\* a token with the payload of a refresh token
IsRefreshToken(t) == t.sig = refreshSecret /\ t.count # NoCount

\* the token's count is not the count the store holds for its user
Mismatch(t, us) ==
    LET oid == ObjectID(t.userId)
    IN oid \notin 1..Len(us) \/ us[oid].count # t.count

\* history kept with every step that signs tokens or writes a count
RecordStale ==
    stale' = stale \cup {t \in issued' : IsRefreshToken(t) /\ Mismatch(t, users')}

\* Slot ids are only names: a request takes the first free slot.  Node runs
\* the synchronous start of one request at a time, so at most one request
\* waits at "auth".
FreeSlot(s) ==
    /\ req[s].pc \in {"idle", "done"}
    /\ \A q \in Slots : req[q].pc # "auth"
    /\ \A q \in Slots : q < s => req[q].pc \notin {"idle", "done"}

\* A request arrives with its Authorization header and its cookies.
ReceiveFrom(s, Bearers, Cookies, max) ==
    /\ FreeSlot(s)
    /\ nreq < max
    /\ \E b \in Bearers, ac \in Cookies, rc \in Cookies :
         req' = [req EXCEPT ![s] =
                   [IdleReq EXCEPT !.pc = "auth", !.bearer = b,
                                   !.accessCookie = ac, !.refreshCookie = rc]]
    /\ nreq' = nreq + 1
    /\ UNCHANGED <<users, now, accessSecret, refreshSecret, issued, stale>>

Receive(s) ==
    ReceiveFrom(s, Presentable \cup {NoToken}, Presentable \cup {NoToken}, MaxRequests)

(***************************************************************************)
(* getActiveUser                                                           *)
(***************************************************************************)
\* getActiveUser falling back to the cookies when the bearer token fails
getActiveUserFallback(r, t) ==
    LET v == verify(r.bearer, accessSecret, t)
        a == verify(r.accessCookie, accessSecret, t)
        f == verify(r.refreshCookie, refreshSecret, t)
    IN IF r.bearer # NoToken /\ v.ok
       THEN [r EXCEPT !.pc = "resolve", !.user = findUserById(v.userId)]
       ELSE IF a.ok
       THEN [r EXCEPT !.pc = "resolve", !.user = findUserById(a.userId)]
       ELSE IF f.ok
       THEN [r EXCEPT !.pc = "rotate", !.data = f, !.found = findUserById(f.userId)]
       ELSE [r EXCEPT !.pc = "resolve", !.user = NoUser]

\* getActiveUser trying the refresh cookie before the access cookie
getActiveUserRefreshFirst(r, t) ==
    IF r.bearer # NoToken
    THEN LET v == verify(r.bearer, accessSecret, t)
         IN [r EXCEPT !.pc = "resolve",
                      !.user = IF v.ok THEN findUserById(v.userId) ELSE NoUser]
    ELSE IF r.accessCookie = NoToken /\ r.refreshCookie = NoToken
    THEN [r EXCEPT !.pc = "resolve", !.user = NoUser]
    ELSE LET a == verify(r.accessCookie, accessSecret, t)
             f == verify(r.refreshCookie, refreshSecret, t)
         IN IF f.ok
            THEN [r EXCEPT !.pc = "rotate", !.data = f,
                           !.found = findUserById(f.userId)]
            ELSE IF a.ok
            THEN [r EXCEPT !.pc = "resolve", !.user = findUserById(a.userId)]
            ELSE [r EXCEPT !.pc = "resolve", !.user = NoUser]

\* the request record after getActiveUser's first segment, up to its lookup
getActiveUser(r, t) ==
    IF r.bearer # NoToken
    THEN LET v == verify(r.bearer, accessSecret, t)
         IN [r EXCEPT !.pc = "resolve",
                      !.user = IF v.ok THEN findUserById(v.userId) ELSE NoUser]
    ELSE IF r.accessCookie = NoToken /\ r.refreshCookie = NoToken
    THEN [r EXCEPT !.pc = "resolve", !.user = NoUser]
    ELSE LET a == verify(r.accessCookie, accessSecret, t)
             f == verify(r.refreshCookie, refreshSecret, t)
         IN IF a.ok
            THEN [r EXCEPT !.pc = "resolve", !.user = findUserById(a.userId)]
            ELSE IF f.ok
            THEN [r EXCEPT !.pc = "rotate", !.data = f,
                           !.found = findUserById(f.userId)]
            ELSE [r EXCEPT !.pc = "resolve", !.user = NoUser]

\* the headers are read once: the record drops them after this step
DropHeaders(r) ==
    [r EXCEPT !.bearer = NoToken, !.accessCookie = NoToken, !.refreshCookie = NoToken]

\* The context builder calls getActiveUser on the request.
Authenticate(s) ==
    /\ req[s].pc = "auth"
    /\ req' = [req EXCEPT ![s] = DropHeaders(getActiveUser(req[s], now))]
    /\ UNCHANGED <<users, now, accessSecret, refreshSecret, issued, nreq, stale>>

\* rotateTokens without the comparison of the counts
rotateTokensAnyCount(r, t) ==
    IF r.found # NoUser /\ ~signInThrows
    THEN LET tokens == signInVerifiedUser(toHexString(r.found._id), r.found.count, t)
         IN [r EXCEPT !.pc = "resolve", !.user = r.found,
                      !.setCookie = addTokensToCookies(tokens)]
    ELSE [r EXCEPT !.pc = "resolve", !.user = NoUser]

\* getActiveUser step 4 after the lookup: compare the counts and rotate; the
\* catch of step 4 swallows a throw of sign
rotateTokens(r, t) ==
    IF r.found # NoUser /\ r.data.count = r.found.count /\ ~signInThrows
    THEN LET tokens == signInVerifiedUser(toHexString(r.found._id), r.found.count, t)
         IN [r EXCEPT !.pc = "resolve", !.user = r.found,
                      !.setCookie = addTokensToCookies(tokens)]
    ELSE [r EXCEPT !.pc = "resolve", !.user = NoUser]

CookieTokens(setCookie) == {setCookie[i].value : i \in 1..Len(setCookie)}

Rotate(s) ==
    /\ req[s].pc = "rotate"
    /\ req' = [req EXCEPT ![s] = rotateTokens(req[s], now)]
    /\ issued' = issued \cup CookieTokens(req'[s].setCookie)
    /\ UNCHANGED <<users, now, accessSecret, refreshSecret, nreq>>
    /\ RecordStale

(***************************************************************************)
(* Permission rules (graphql-shield)                                       *)
(***************************************************************************)
isAuthenticated(user) == user # NoUser
notAuthenticated(user) == ~isAuthenticated(user)

\* the schema without its permission rules
AuthPermissionsNone(op, user) == op \in Ops

AuthPermissions(op, user) ==
    CASE op = "me" -> isAuthenticated(user)
      [] op = "signIn" -> notAuthenticated(user)
      [] op = "signUp" -> notAuthenticated(user)
      [] op = "refreshTokens" -> notAuthenticated(user)
      [] op = "invalidateTokens" -> isAuthenticated(user)

\* the rule of the requested operation fails: the resolver does not run
Denied(s) ==
    /\ req[s].pc = "resolve"
    /\ \E op \in Ops :
         /\ ~AuthPermissions(op, req[s].user)
         /\ req' = [req EXCEPT ![s].pc = "done", ![s].op = op,
                               ![s].result = NotAuthorised]
    /\ UNCHANGED <<users, now, accessSecret, refreshSecret, issued, nreq, stale>>

(***************************************************************************)
(* Resolvers                                                               *)
(***************************************************************************)
\* the request in slot s asks for op, and op's rule lets it through
Allowed(s, op) ==
    /\ req[s].pc = "resolve"
    /\ AuthPermissions(op, req[s].user)

meQuery(s) ==
    /\ Allowed(s, "me")
    /\ req' = [req EXCEPT ![s].pc = "done", ![s].op = "me",
                          ![s].result = [kind |-> "user", user |-> req[s].user]]
    /\ UNCHANGED <<users, now, accessSecret, refreshSecret, issued, nreq, stale>>

\* signUpCheck without the existence check
signUpCheckNone(r) == [r EXCEPT !.pc = "create"]

\* signUp up to createNewUser: the existence check
signUpCheck(r) ==
    IF isUser(r.email)
    THEN [r EXCEPT !.pc = "done", !.result = AlreadyExists(r.email)]
    ELSE [r EXCEPT !.pc = "create"]

signUpWith(s, Es, Ps, Cs) ==
    /\ Allowed(s, "signUp")
    /\ \E e \in Es, p \in Ps, c \in Cs :
         req' = [req EXCEPT ![s] =
                   signUpCheck([req[s] EXCEPT !.op = "signUp", !.email = e,
                                              !.password = p, !.cookies = c])]
    /\ UNCHANGED <<users, now, accessSecret, refreshSecret, issued, nreq, stale>>

PayloadTokens(result) ==
    IF result.kind = "payload" THEN {result.accessToken, result.refreshToken} ELSE {}

signUpMutation(s) == signUpWith(s, Emails, Passwords, BOOLEAN)

\* createNewUser's insert, then signInHelper for the new user
createNewUser(s) ==
    /\ req[s].pc = "create"
    /\ LET doc == newUserDoc(req[s].email, req[s].password)
           out == signInOrThrow(doc._id, doc.count, TRUE, req[s].cookies, now)
       IN /\ users' = Append(users, doc)
          /\ req' = [req EXCEPT ![s].pc = "done", ![s].result = out.payload,
                                ![s].setCookie = out.cookies]
          /\ issued' = issued \cup PayloadTokens(out.payload)
    /\ UNCHANGED <<now, accessSecret, refreshSecret, nreq>>
    /\ RecordStale

\* getValidatedUser: the user, or the error it throws
getValidatedUser(email, password) ==
    LET user == findUserByEmail(email)
    IN IF user = NoUser THEN Error("Invalid email provided")
       ELSE IF ~compare(password, user.passwordHash)
       THEN Error("Invalid credential combination")
       ELSE [kind |-> "user", user |-> user]

\* the signIn resolver on the request r
signIn(r, t) ==
    LET v == getValidatedUser(r.email, r.password)
        out == signInOrThrow(v.user._id, v.user.count, TRUE, r.cookies, t)
    IN IF v.kind = "error"
       THEN [r EXCEPT !.pc = "done", !.result = v]
       ELSE [r EXCEPT !.pc = "done", !.result = out.payload, !.setCookie = out.cookies]

signInWith(s, Es, Ps, Cs) ==
    /\ Allowed(s, "signIn")
    /\ \E e \in Es, p \in Ps, c \in Cs :
         req' = [req EXCEPT ![s] =
                   signIn([req[s] EXCEPT !.op = "signIn", !.email = e,
                                         !.password = p, !.cookies = c], now)]
    /\ issued' = issued \cup PayloadTokens(req'[s].result)
    /\ UNCHANGED <<users, now, accessSecret, refreshSecret, nreq>>
    /\ RecordStale

signInMutation(s) == signInWith(s, Emails, Passwords, BOOLEAN)

\* refreshTokens up to its lookup in the store
refreshLookup(r, refreshToken, t) ==
    LET data == verifyRefreshToken(refreshToken, t)
    IN IF data.ok
       THEN [r EXCEPT !.pc = "issue", !.data = data, !.found = findUserById(data.userId)]
       ELSE [r EXCEPT !.pc = "done", !.result = NullResult]

refreshTokensWith(s, Tokens) ==
    /\ Allowed(s, "refreshTokens")
    /\ \E refreshToken \in Tokens :
         req' = [req EXCEPT ![s] =
                   refreshLookup([req[s] EXCEPT !.op = "refreshTokens"], refreshToken, now)]
    /\ UNCHANGED <<users, now, accessSecret, refreshSecret, issued, nreq, stale>>

refreshTokensMutation(s) == refreshTokensWith(s, Presentable)

\* refreshIssue expecting the count after the token's
refreshIssueNextCount(r, t) ==
    IF r.found # NoUser /\ r.found.count = r.data.count + 1
    THEN [r EXCEPT !.pc = "done",
                   !.result = signInOrThrow(ObjectID(r.data.userId), r.data.count,
                                            FALSE, FALSE, t).payload]
    ELSE [r EXCEPT !.pc = "done", !.result = NullResult]

\* refreshIssue writing the new pair as cookies too
refreshIssueSetsCookies(r, t) ==
    IF r.found # NoUser /\ r.found.count = r.data.count
    THEN LET out == signInOrThrow(ObjectID(r.data.userId), r.data.count, TRUE, TRUE, t)
         IN [r EXCEPT !.pc = "done", !.result = out.payload, !.setCookie = out.cookies]
    ELSE [r EXCEPT !.pc = "done", !.result = NullResult]

\* refreshTokens after the lookup: compare the counts and sign in
refreshIssue(r, t) ==
    IF r.found # NoUser /\ r.found.count = r.data.count
    THEN [r EXCEPT !.pc = "done",
                   !.result = signInOrThrow(ObjectID(r.data.userId), r.data.count,
                                            FALSE, FALSE, t).payload]
    ELSE [r EXCEPT !.pc = "done", !.result = NullResult]

RefreshIssue(s) ==
    /\ req[s].pc = "issue"
    /\ req' = [req EXCEPT ![s] = refreshIssue(req[s], now)]
    /\ issued' = issued \cup PayloadTokens(req'[s].result)
    /\ UNCHANGED <<users, now, accessSecret, refreshSecret, nreq>>
    /\ RecordStale

\* the count invalidateTokens writes for the context's user
invalidatedCount(user) == user.count + 1

invalidateTokensMutation(s) ==
    /\ Allowed(s, "invalidateTokens")
    /\ LET id == toHexString(req[s].user._id)
           count == invalidatedCount(req[s].user)
       IN /\ users' = updateOneSetCount(id, count)
          /\ req' = [req EXCEPT ![s].pc = "done", ![s].op = "invalidateTokens",
                                ![s].result = [kind |-> "bool",
                                               value |-> modifiedCount(id, count) = 1]]
    /\ UNCHANGED <<now, accessSecret, refreshSecret, issued, nreq>>
    /\ RecordStale

\* time passes
Tick ==
    /\ \E t \in Instants : t > now /\ now' = t
    /\ UNCHANGED <<users, accessSecret, refreshSecret, issued, req, nreq, stale>>

Next ==
    \/ \E s \in Slots : Receive(s)
    \/ \E s \in Slots : Authenticate(s)
    \/ \E s \in Slots : Rotate(s)
    \/ \E s \in Slots : Denied(s)
    \/ \E s \in Slots : meQuery(s)
    \/ \E s \in Slots : signUpMutation(s)
    \/ \E s \in Slots : createNewUser(s)
    \/ \E s \in Slots : signInMutation(s)
    \/ \E s \in Slots : refreshTokensMutation(s)
    \/ \E s \in Slots : RefreshIssue(s)
    \/ \E s \in Slots : invalidateTokensMutation(s)
    \/ Tick

Spec == Init /\ [][Next]_vars

(***************************************************************************)
(* One account used in bearer mode at one instant: the same handlers on    *)
(* fewer inputs, which lets more requests overlap.                         *)
(***************************************************************************)
IsAccessToken(t) == t.sig = accessSecret /\ t.count = NoCount

RaceReceive(s) ==
    ReceiveFrom(s, {t \in issued : IsAccessToken(t)} \cup {NoToken}, {NoToken},
                MaxRaceRequests)
RaceSignUp(s) == signUpWith(s, {"a@x.com"}, {"pw"}, {FALSE})
RaceSignIn(s) == signInWith(s, {"a@x.com"}, {"pw"}, {FALSE})
RaceRefresh(s) == refreshTokensWith(s, {t \in issued : IsRefreshToken(t)})

RaceNext ==
    \/ \E s \in Slots : RaceReceive(s)
    \/ \E s \in Slots : Authenticate(s)
    \/ \E s \in Slots : Denied(s)
    \/ \E s \in Slots : RaceSignUp(s)
    \/ \E s \in Slots : createNewUser(s)
    \/ \E s \in Slots : RaceSignIn(s)
    \/ \E s \in Slots : RaceRefresh(s)
    \/ \E s \in Slots : RefreshIssue(s)
    \/ \E s \in Slots : invalidateTokensMutation(s)

SpecRace == Init /\ [][RaceNext]_vars

(***************************************************************************)
(* One account whose tokens are presented in every position, on a clock    *)
(* that stops just before, at and just after the two expiry times.         *)
(***************************************************************************)
ClockInstants ==
    {0, AccessTTL - 1, AccessTTL, AccessTTL + 1,
     RefreshTTL - 1, RefreshTTL, RefreshTTL + 1}

ReceiveIssued(s, max) ==
    ReceiveFrom(s, issued \cup {NoToken}, issued \cup {NoToken}, max)
RefreshWithIssued(s) == refreshTokensWith(s, issued)

ClockReceive(s) == ReceiveIssued(s, MaxClockRequests)

ClockTick ==
    /\ \E t \in ClockInstants : t > now /\ now' = t
    /\ UNCHANGED <<users, accessSecret, refreshSecret, issued, req, nreq, stale>>

ClockNext ==
    \/ \E s \in Slots : ClockReceive(s)
    \/ \E s \in Slots : Authenticate(s)
    \/ \E s \in Slots : Rotate(s)
    \/ \E s \in Slots : Denied(s)
    \/ \E s \in Slots : meQuery(s)
    \/ \E s \in Slots : RaceSignUp(s)
    \/ \E s \in Slots : createNewUser(s)
    \/ \E s \in Slots : RaceSignIn(s)
    \/ \E s \in Slots : RefreshWithIssued(s)
    \/ \E s \in Slots : RefreshIssue(s)
    \/ ClockTick

SpecClock == Init /\ [][ClockNext]_vars

(***************************************************************************)
(* The same account under every pair of secrets the environment can give:  *)
(* unset (the empty default), set to different values, set to one value.   *)
(***************************************************************************)
Secrets == {"", "access-secret", "refresh-secret"}

InitSecrets ==
    /\ users = <<>>
    /\ now = 0
    /\ accessSecret \in Secrets
    /\ refreshSecret \in Secrets
    /\ issued = {}
    /\ req = [s \in Slots |-> IdleReq]
    /\ nreq = 0
    /\ stale = {}

SecretsReceive(s) == ReceiveIssued(s, MaxSecretsRequests)

SecretsNext ==
    \/ \E s \in Slots : SecretsReceive(s)
    \/ \E s \in Slots : Authenticate(s)
    \/ \E s \in Slots : Rotate(s)
    \/ \E s \in Slots : Denied(s)
    \/ \E s \in Slots : meQuery(s)
    \/ \E s \in Slots : RaceSignUp(s)
    \/ \E s \in Slots : createNewUser(s)
    \/ \E s \in Slots : RaceSignIn(s)
    \/ \E s \in Slots : RefreshWithIssued(s)
    \/ \E s \in Slots : RefreshIssue(s)

SpecSecrets == InitSecrets /\ [][SecretsNext]_vars


(***************************************************************************)
(* Vocabulary of the properties                                            *)
(***************************************************************************)
\* the document of the store us whose _id is written hexId, if any
StoredUser(us, hexId) ==
    IF \E i \in 1..Len(us) : toHexString(us[i]._id) = hexId
    THEN us[CHOOSE i \in 1..Len(us) : toHexString(us[i]._id) = hexId]
    ELSE NoUser

\* signature and expiry of a presented token, at the current time
AccessValid(tok) == tok.sig = accessSecret /\ now < tok.exp
RefreshValid(tok) == tok.sig = refreshSecret /\ now < tok.exp

\* the refresh token whose payload verify returned
TokenOf(data) ==
    [userId |-> data.userId, count |-> data.count, iat |-> data.iat,
     exp |-> data.exp, sig |-> refreshSecret]

\* slot s takes the step that leaves pc
Leaves(s, pc) == req[s].pc = pc /\ req'[s].pc # pc

\* the lookup of the request in slot s found the user with the token's count
Matched(r) == r.found # NoUser /\ r.found.count = r.data.count

CookieValue(setCookie, name) ==
    setCookie[CHOOSE i \in 1..Len(setCookie) : setCookie[i].name = name].value

(***************************************************************************)
(* C1: in both refresh paths a refresh token is honored (tokens are        *)
(* issued) only if the lookup found the user it names with the count it    *)
(* carries, the lookup reading the store as it is at that step; in every   *)
(* other case the step issues no tokens.                                   *)
(***************************************************************************)
C1_HonoredOnlyOnMatch ==
    [][\A s \in Slots :
        /\ Leaves(s, "auth") =>
             /\ issued' = issued
             /\ req'[s].setCookie = NoCookies
             /\ req'[s].pc = "rotate" =>
                  req'[s].found = StoredUser(users, req'[s].data.userId)
        /\ (Leaves(s, "resolve") /\ req'[s].op = "refreshTokens") =>
             /\ issued' = issued
             /\ req'[s].result.kind # "payload"
             /\ req'[s].pc = "issue" =>
                  req'[s].found = StoredUser(users, req'[s].data.userId)
        /\ (Leaves(s, "rotate") /\ ~Matched(req[s])) =>
             /\ issued' = issued
             /\ req'[s].setCookie = NoCookies
             /\ req'[s].user = NoUser
        /\ (Leaves(s, "issue") /\ ~Matched(req[s])) =>
             /\ issued' = issued
             /\ req'[s].setCookie = NoCookies
             /\ req'[s].result = NullResult
      ]_vars

\* a refreshTokens request has been honored
C1_Witness ==
    \E s \in Slots :
        /\ req[s].pc = "done" /\ req[s].op = "refreshTokens"
        /\ req[s].result.kind = "payload"
        /\ Matched(req[s])

(***************************************************************************)
(* C5: with an Authorization header, getActiveUser answers from the bearer *)
(* token alone: Anonymous if it fails verification, whatever the cookies,  *)
(* the user it names otherwise; and it neither rotates nor writes cookies. *)
(***************************************************************************)
C5_BearerDecides ==
    [][\A s \in Slots :
        (Leaves(s, "auth") /\ req[s].bearer # NoToken) =>
            /\ req'[s].pc = "resolve"
            /\ req'[s].setCookie = NoCookies
            /\ issued' = issued
            /\ users' = users
            /\ req'[s].user = IF AccessValid(req[s].bearer)
                              THEN StoredUser(users, req[s].bearer.userId)
                              ELSE NoUser
      ]_vars

\* a request whose bearer token fails while its cookies would rotate or
\* authenticate, and which getActiveUser resolves to Anonymous
C5_Witness ==
    \E s \in Slots :
        /\ req[s].pc = "auth"
        /\ req[s].bearer # NoToken /\ ~AccessValid(req[s].bearer)
        /\ AccessValid(req[s].accessCookie)
        /\ RefreshValid(req[s].refreshCookie)
        /\ ~Mismatch(req[s].refreshCookie, users)
        /\ getActiveUser(req[s], now).user = NoUser
        /\ getActiveUser(req[s], now).pc = "resolve"

(***************************************************************************)
(* C6: without an Authorization header and without a valid access cookie,  *)
(* a refresh cookie that verifies and carries its user's stored count      *)
(* leads to rotation: the user is returned, a new access token and a new   *)
(* refresh token for the same id and the same count are signed at the      *)
(* current time and written as the two cookies, and the new access token   *)
(* resolves to the same user.                                              *)
(***************************************************************************)
C6_Rotation ==
    [][\A s \in Slots :
        /\ ( /\ Leaves(s, "auth")
             /\ req[s].bearer = NoToken
             /\ ~AccessValid(req[s].accessCookie)
             /\ RefreshValid(req[s].refreshCookie)
             /\ ~Mismatch(req[s].refreshCookie, users) ) =>
               /\ req'[s].pc = "rotate"
               /\ Matched(req'[s])
               /\ TokenOf(req'[s].data) = req[s].refreshCookie
        /\ (Leaves(s, "rotate") /\ Matched(req[s])) =>
               LET id == req[s].data.userId
                   access == CookieValue(req'[s].setCookie, "access-token")
                   refresh == CookieValue(req'[s].setCookie, "refresh-token")
               IN /\ req'[s].user = req[s].found
                  /\ toHexString(req'[s].user._id) = id
                  /\ Len(req'[s].setCookie) = 2
                  /\ access = [userId |-> id, count |-> NoCount, iat |-> now,
                               exp |-> now + AccessTTL, sig |-> accessSecret]
                  /\ refresh = [userId |-> id, count |-> req[s].data.count, iat |-> now,
                                exp |-> now + RefreshTTL, sig |-> refreshSecret]
                  /\ {access, refresh} \subseteq issued'
                  /\ getActiveUser([IdleReq EXCEPT !.pc = "auth", !.accessCookie = access],
                                   now).user._id = req[s].found._id
      ]_vars

\* getActiveUser has rotated and returned the user
C6_Witness ==
    \E s \in Slots :
        /\ req[s].pc = "resolve"
        /\ req[s].user # NoUser
        /\ req[s].setCookie # NoCookies
        /\ Matched(req[s])

(***************************************************************************)
(* C7: refresh tokens are not single-use.  Every refresh whose lookup      *)
(* matched succeeds with a pair bound to the same user and count, whatever *)
(* other refreshes of the same token do; and every issued refresh token    *)
(* that is unexpired and carries its user's stored count is honored by     *)
(* both refresh paths, however often it or its successors were used.       *)
(***************************************************************************)
Usable(tok) == RefreshValid(tok) /\ ~Mismatch(tok, users)

RefreshHonors(tok) ==
    LET r == refreshLookup([IdleReq EXCEPT !.pc = "resolve", !.op = "refreshTokens"],
                           tok, now)
    IN r.pc = "issue" /\ refreshIssue(r, now).result.kind = "payload"

RotationHonors(tok) ==
    LET r == getActiveUser([IdleReq EXCEPT !.pc = "auth", !.refreshCookie = tok], now)
    IN r.pc = "rotate" /\ rotateTokens(r, now).setCookie # NoCookies

RefreshSucceeded(s) ==
    /\ req[s].pc = "done" /\ req[s].op = "refreshTokens"
    /\ req[s].result.kind = "payload"

C7_NotSingleUse ==
    /\ \A s \in Slots :
         ( /\ req[s].pc = "done" /\ req[s].op = "refreshTokens"
           /\ req[s].result # NotAuthorised
           /\ req[s].data.ok /\ Matched(req[s]) ) =>
             /\ req[s].result.kind = "payload"
             /\ req[s].result.refreshToken.userId = req[s].data.userId
             /\ req[s].result.refreshToken.count = req[s].data.count
             /\ {req[s].result.refreshToken, req[s].result.accessToken} \subseteq issued
    /\ \A s \in Slots :
         ( /\ req[s].pc \in {"resolve", "create", "done"}
           /\ req[s].op # "refreshTokens"
           /\ req[s].data.ok /\ Matched(req[s]) ) =>
             /\ req[s].user = req[s].found
             /\ req[s].setCookie # NoCookies
    /\ \A tok \in issued :
         (IsRefreshToken(tok) /\ Usable(tok)) =>
             RefreshHonors(tok) /\ RotationHonors(tok)

\* two refreshes of the same token have both succeeded, and the token and
\* the tokens they minted are all still usable
C7_Witness ==
    \E s1, s2 \in Slots :
        /\ s1 # s2
        /\ RefreshSucceeded(s1) /\ RefreshSucceeded(s2)
        /\ req[s1].data = req[s2].data
        /\ TokenOf(req[s1].data) \in issued
        /\ Usable(TokenOf(req[s1].data))
        /\ Usable(req[s1].result.refreshToken)
        /\ Usable(req[s2].result.refreshToken)

(***************************************************************************)
(* C9: signUp fails with the already-exists error, changes no user and     *)
(* issues no tokens when its existence check finds the email; otherwise it *)
(* inserts exactly one user, with count 0, and returns count 0 with a pair *)
(* for the new user whose refresh token carries count 0.                   *)
(***************************************************************************)
EmailTaken(us, email) == \E i \in 1..Len(us) : us[i].email = email

C9_SignUp ==
    [][\A s \in Slots :
        /\ ( /\ Leaves(s, "resolve") /\ req'[s].op = "signUp"
             /\ req'[s].result # NotAuthorised ) =>
               /\ users' = users
               /\ issued' = issued
               /\ req'[s].setCookie = req[s].setCookie
               /\ IF EmailTaken(users, req'[s].email)
                  THEN /\ req'[s].pc = "done"
                       /\ req'[s].result.kind = "error"
                       /\ req'[s].result = AlreadyExists(req'[s].email)
                  ELSE req'[s].pc = "create"
        /\ Leaves(s, "create") =>
               LET new == users'[Len(users')]
                   out == req'[s].result
               IN /\ Len(users') = Len(users) + 1
                  /\ SubSeq(users', 1, Len(users)) = users
                  /\ \A i \in 1..Len(users) : users[i]._id # new._id
                  /\ new.email = req[s].email
                  /\ new.count = 0
                  /\ compare(req[s].password, new.passwordHash)
                  /\ req'[s].pc = "done"
                  /\ out.kind = "payload"
                  /\ out.count = 0
                  /\ out.refreshToken.count = 0
                  /\ out.refreshToken.userId = toHexString(new._id)
                  /\ out.accessToken.userId = toHexString(new._id)
                  /\ RefreshValid(out.refreshToken) /\ AccessValid(out.accessToken)
                  /\ issued' = issued \cup {out.refreshToken, out.accessToken}
      ]_vars

\* one signUp has created its user and another has failed on the same email
C9_Witness ==
    \E s1, s2 \in Slots :
        /\ req[s1].pc = "done" /\ req[s1].op = "signUp"
        /\ req[s1].result.kind = "payload"
        /\ req[s2].pc = "done" /\ req[s2].op = "signUp"
        /\ req[s2].result = AlreadyExists(req[s1].email)
        /\ Len(users) = 1

(***************************************************************************)
(* C2: invalidation is permanent: once the stored count of its user has    *)
(* differed from the count a refresh token carries, no lookup of either    *)
(* refresh path finds that token matching again, so it is never honored.   *)
(***************************************************************************)
C2_InvalidationPermanent ==
    [][\A s \in Slots :
        ( /\ \/ Leaves(s, "auth") /\ req'[s].pc = "rotate"
             \/ Leaves(s, "resolve") /\ req'[s].pc = "issue"
          /\ Matched(req'[s]) ) =>
            TokenOf(req'[s].data) \notin stale
      ]_vars

(***************************************************************************)
(* C3: two invalidateTokens calls for the same user both land: when both   *)
(* have returned, the stored count is 2 above the count the earlier of the *)
(* two found, whether or not their lookups and writes overlapped.          *)
(***************************************************************************)
InvalidateReturned(s) ==
    /\ req[s].pc = "done" /\ req[s].op = "invalidateTokens"
    /\ req[s].result.kind = "bool"

Min(a, b) == IF a <= b THEN a ELSE b

C3_BothInvalidationsLand ==
    \A s1, s2 \in Slots :
        ( /\ s1 # s2
          /\ InvalidateReturned(s1) /\ InvalidateReturned(s2)
          /\ req[s1].user._id = req[s2].user._id ) =>
            users[req[s1].user._id].count =
                Min(req[s1].user.count, req[s2].user.count) + 2

(***************************************************************************)
(* C4: when invalidateTokens has succeeded for a user, every refresh token *)
(* issued for that user before is rejected by both refresh paths, while    *)
(* every unexpired access token issued before still authenticates, as      *)
(* bearer token and as access cookie.                                      *)
(***************************************************************************)
AuthenticatesAs(tok, id) ==
    /\ getActiveUser([IdleReq EXCEPT !.pc = "auth", !.bearer = tok], now).user._id = id
    /\ getActiveUser([IdleReq EXCEPT !.pc = "auth", !.accessCookie = tok], now).user._id = id

RevokedFor(id) ==
    /\ \A tok \in issued :
         (IsRefreshToken(tok) /\ tok.userId = toHexString(id)) =>
             ~RefreshHonors(tok) /\ ~RotationHonors(tok)
    /\ \A tok \in issued :
         (IsAccessToken(tok) /\ tok.userId = toHexString(id) /\ AccessValid(tok)) =>
             AuthenticatesAs(tok, id)

C4_RevokesRefreshNotAccess ==
    [][\A s \in Slots :
        ( /\ Leaves(s, "resolve") /\ req'[s].op = "invalidateTokens"
          /\ req'[s].result = [kind |-> "bool", value |-> TRUE] ) =>
            RevokedFor(req[s].user._id)'
      ]_vars

(***************************************************************************)
(* C8: a signIn that fails on its credentials fails with one and the same  *)
(* error, whether the email is unknown or the password is wrong.           *)
(***************************************************************************)
CredentialFailure(s) ==
    /\ req[s].pc = "done" /\ req[s].op = "signIn"
    /\ req[s].result.kind = "error"
    /\ req[s].result # NotAuthorised

C8_UniformSignInError ==
    \A s1, s2 \in Slots :
        (CredentialFailure(s1) /\ CredentialFailure(s2)) =>
            req[s1].result = req[s2].result

(***************************************************************************)
(* C10: the store holds at most one user per email, and of the signUp      *)
(* calls with one email at most one succeeds.                              *)
(***************************************************************************)
SignUpSucceeded(s) ==
    /\ req[s].pc = "done" /\ req[s].op = "signUp"
    /\ req[s].result.kind = "payload"

C10_EmailUnique ==
    /\ \A i, j \in 1..Len(users) : users[i].email = users[j].email => i = j
    /\ \A s1, s2 \in Slots :
         (s1 # s2 /\ SignUpSucceeded(s1) /\ SignUpSucceeded(s2)) =>
             req[s1].email # req[s2].email

(***************************************************************************)
(* C11: signIn never changes the user store; and a signIn with the email   *)
(* and the password of an account succeeds with a pair for that account:   *)
(* the access token resolves through getActiveUser to its id, and the      *)
(* refresh token and the returned count carry the count the store holds    *)
(* for it at that step.                                                    *)
(***************************************************************************)
AccountIds(us, email, password) ==
    {toHexString(us[i]._id) : i \in {j \in 1..Len(us) :
        us[j].email = email /\ compare(password, us[j].passwordHash)}}

SignInStep(s) ==
    /\ Leaves(s, "resolve") /\ req'[s].op = "signIn"
    /\ req'[s].result # NotAuthorised

C11_SignIn ==
    [][\A s \in Slots :
        SignInStep(s) =>
            /\ users' = users
            /\ AccountIds(users, req'[s].email, req'[s].password) # {} =>
                 LET out == req'[s].result
                 IN /\ out.kind = "payload"
                    /\ out.accessToken.userId
                         \in AccountIds(users, req'[s].email, req'[s].password)
                    /\ getActiveUser([IdleReq EXCEPT !.pc = "auth",
                                                     !.bearer = out.accessToken],
                                     now).user._id = ObjectID(out.accessToken.userId)
                    /\ out.refreshToken.userId = out.accessToken.userId
                    /\ out.refreshToken.count =
                         StoredUser(users, out.accessToken.userId).count
                    /\ out.count = out.refreshToken.count
      ]_vars

(***************************************************************************)
(* C12: the refreshTokens mutation applies the counter-match rule of       *)
(* rotation.  A token that does not verify gives null; one that verifies   *)
(* is looked up by its user id, and the mutation returns a new pair for    *)
(* the same id and count if the lookup found the user with the token's     *)
(* count, null otherwise.  No step of it writes a cookie or changes the    *)
(* user store.                                                             *)
(***************************************************************************)
RefreshTokensStep(s) ==
    /\ Leaves(s, "resolve") /\ req'[s].op = "refreshTokens"
    /\ req'[s].result # NotAuthorised

C12_StandaloneRefresh ==
    [][\A s \in Slots :
        /\ RefreshTokensStep(s) =>
             /\ users' = users
             /\ issued' = issued
             /\ req'[s].setCookie = req[s].setCookie
             /\ \E tok \in Presentable :
                  IF RefreshValid(tok)
                  THEN /\ req'[s].pc = "issue"
                       /\ TokenOf(req'[s].data) = tok
                       /\ req'[s].found = StoredUser(users, tok.userId)
                  ELSE /\ req'[s].pc = "done"
                       /\ req'[s].result = NullResult
             /\ \A tok \in Presentable :
                  refreshLookup(req[s], tok, now).pc =
                      IF RefreshValid(tok) THEN "issue" ELSE "done"
        /\ Leaves(s, "issue") =>
             LET out == req'[s].result
                 data == req[s].data
             IN /\ users' = users
                /\ req'[s].setCookie = req[s].setCookie
                /\ req'[s].pc = "done"
                /\ IF Matched(req[s])
                   THEN /\ out.kind = "payload"
                        /\ out.refreshToken =
                             [userId |-> data.userId, count |-> data.count, iat |-> now,
                              exp |-> now + RefreshTTL, sig |-> refreshSecret]
                        /\ out.accessToken =
                             [userId |-> data.userId, count |-> NoCount, iat |-> now,
                              exp |-> now + AccessTTL, sig |-> accessSecret]
                        /\ out.count = data.count
                        /\ issued' = issued \cup {out.refreshToken, out.accessToken}
                   ELSE /\ out = NullResult
                        /\ issued' = issued
      ]_vars

\* a refreshTokens whose token verified and named a stored user has returned
\* null because the counts differ
C12_Witness ==
    \E s \in Slots :
        /\ req[s].pc = "done" /\ req[s].op = "refreshTokens"
        /\ req[s].result = NullResult
        /\ req[s].data.ok /\ req[s].found # NoUser
        /\ req[s].found.count # req[s].data.count
        /\ req[s].setCookie = NoCookies

(***************************************************************************)
(* C13: invalidateTokens for an Anonymous session changes no count and     *)
(* does not report success.  For an Authenticated session, with no other   *)
(* request in flight and the user's count unchanged since the session was  *)
(* resolved, it returns true and raises that user's stored count by        *)
(* exactly 1, and from then on refreshTokens with any refresh token issued *)
(* for that user before returns null.                                      *)
(***************************************************************************)
InvalidateStep(s) == Leaves(s, "resolve") /\ req'[s].op = "invalidateTokens"

NoOtherInFlight(s) == \A q \in Slots \ {s} : req[q].pc \in {"idle", "done"}

C13_Invalidate ==
    [][\A s \in Slots :
        /\ (InvalidateStep(s) /\ req[s].user = NoUser) =>
             /\ users' = users
             /\ req'[s].result = NotAuthorised
        /\ ( /\ InvalidateStep(s) /\ req[s].user # NoUser
             /\ NoOtherInFlight(s)
             /\ req[s].user = StoredUser(users, toHexString(req[s].user._id)) ) =>
               LET id == req[s].user._id
               IN /\ req'[s].result = [kind |-> "bool", value |-> TRUE]
                  /\ users' = [users EXCEPT ![id].count = users[id].count + 1]
                  /\ \A tok \in issued :
                       (IsRefreshToken(tok) /\ tok.userId = toHexString(id)) =>
                           ~RefreshHonors(tok)'
      ]_vars

(***************************************************************************)
(* C14: within a request the response's cookies change only at a rotation  *)
(* and at a signIn or signUp that succeeds with the cookies flag set, and  *)
(* there they become the two token cookies of the new pair.  Every other   *)
(* step (a signIn or signUp without the flag or failing, refreshTokens,    *)
(* invalidateTokens, me, a denied operation, getActiveUser without         *)
(* rotation) leaves them as they are.                                      *)
(***************************************************************************)
RotationEvent(s) == Leaves(s, "rotate") /\ req'[s].user # NoUser

OptedInSuccess(s) ==
    /\ \/ Leaves(s, "create")
       \/ Leaves(s, "resolve") /\ req'[s].op = "signIn"
    /\ req'[s].cookies
    /\ req'[s].result.kind = "payload"

C14_CookieWrites ==
    [][\A s \in Slots :
        /\ (req[s].pc \notin {"idle", "done"} /\ ~RotationEvent(s) /\ ~OptedInSuccess(s)) =>
             req'[s].setCookie = req[s].setCookie
        /\ RotationEvent(s) =>
             /\ Len(req'[s].setCookie) = 2
             /\ CookieTokens(req'[s].setCookie) \subseteq issued'
        /\ OptedInSuccess(s) =>
             /\ Len(req'[s].setCookie) = 2
             /\ CookieValue(req'[s].setCookie, "access-token") = req'[s].result.accessToken
             /\ CookieValue(req'[s].setCookie, "refresh-token") = req'[s].result.refreshToken
      ]_vars

\* a signIn without the flag has succeeded and left the cookies alone, while
\* a signUp with the flag has written them
C14_Witness ==
    \E s1, s2 \in Slots :
        /\ req[s1].pc = "done" /\ req[s1].op = "signIn"
        /\ ~req[s1].cookies /\ req[s1].result.kind = "payload"
        /\ req[s1].setCookie = NoCookies
        /\ req[s2].pc = "done" /\ req[s2].op = "signUp"
        /\ req[s2].cookies /\ req[s2].result.kind = "payload"
        /\ req[s2].setCookie # NoCookies

(***************************************************************************)
(* C15: whenever the token cookies are written, the access-token cookie    *)
(* has max-age 900 seconds, the lifetime of the access token, and the      *)
(* refresh-token cookie max-age 604800 seconds, the lifetime of the        *)
(* refresh token.                                                          *)
(***************************************************************************)
C15_CookieMaxAge ==
    \A s \in Slots : \A i \in 1..Len(req[s].setCookie) :
        LET cookie == req[s].setCookie[i]
        IN /\ cookie.name = "access-token" =>
                /\ cookie.maxAge = 900
                /\ cookie.maxAge = cookie.value.exp - cookie.value.iat
           /\ cookie.name = "refresh-token" =>
                /\ cookie.maxAge = 604800
                /\ cookie.maxAge = cookie.value.exp - cookie.value.iat

(***************************************************************************)
(* C16: without an Authorization header, an access cookie that verifies    *)
(* decides alone: getActiveUser returns the user it names, the outcome is  *)
(* the same for every refresh cookie (absent, expired, stale or valid),    *)
(* no rotation starts, no token is issued and no cookie is written.        *)
(***************************************************************************)
C16_AccessCookieFirst ==
    [][\A s \in Slots :
        ( /\ Leaves(s, "auth")
          /\ req[s].bearer = NoToken
          /\ AccessValid(req[s].accessCookie) ) =>
            /\ req'[s].pc = "resolve"
            /\ req'[s].user = StoredUser(users, req[s].accessCookie.userId)
            /\ req'[s].setCookie = NoCookies
            /\ issued' = issued
            /\ users' = users
            /\ \A rc \in Presentable \cup {NoToken} :
                 DropHeaders(getActiveUser([req[s] EXCEPT !.refreshCookie = rc], now))
                     = req'[s]
      ]_vars

\* a request with a valid access cookie and an unexpired refresh cookie bound
\* to a stale count, which getActiveUser resolves to the access cookie's user
C16_Witness ==
    \E s \in Slots :
        /\ req[s].pc = "auth"
        /\ req[s].bearer = NoToken
        /\ AccessValid(req[s].accessCookie)
        /\ RefreshValid(req[s].refreshCookie)
        /\ Mismatch(req[s].refreshCookie, users)
        /\ getActiveUser(req[s], now).pc = "resolve"
        /\ getActiveUser(req[s], now).user # NoUser
        /\ getActiveUser(req[s], now).user
               = StoredUser(users, req[s].accessCookie.userId)

(***************************************************************************)
(* C17: getActiveUser ends with a stored user or with Anonymous, whatever  *)
(* the tokens, and changes no user.  It gives Anonymous, issues nothing    *)
(* and writes no cookie when there is neither header nor cookie, when the  *)
(* bearer token fails, when both cookies fail, and when the refresh        *)
(* cookie's user is not found or has another count.                        *)
(***************************************************************************)
StoredUsers == {users[i] : i \in 1..Len(users)}

Anonymous(r) == r.pc = "resolve" /\ r.user = NoUser /\ r.setCookie = NoCookies

C17_SilentFailure ==
    [][\A s \in Slots :
        /\ Leaves(s, "auth") =>
             /\ users' = users
             /\ issued' = issued
             /\ req'[s].setCookie = NoCookies
             /\ req'[s].result = NoResult
             /\ \/ req'[s].pc = "resolve" /\ req'[s].user \in StoredUsers \cup {NoUser}
                \/ /\ req'[s].pc = "rotate" /\ req'[s].user = NoUser
                   /\ req'[s].found \in StoredUsers \cup {NoUser}
             /\ ( /\ req[s].bearer = NoToken /\ req[s].accessCookie = NoToken
                  /\ req[s].refreshCookie = NoToken ) => Anonymous(req'[s])
             /\ (req[s].bearer # NoToken /\ ~AccessValid(req[s].bearer)) =>
                  Anonymous(req'[s])
             /\ ( /\ req[s].bearer = NoToken /\ ~AccessValid(req[s].accessCookie)
                  /\ ~RefreshValid(req[s].refreshCookie) ) => Anonymous(req'[s])
        /\ Leaves(s, "rotate") =>
             /\ users' = users
             /\ req'[s].pc = "resolve"
             /\ req'[s].result = NoResult
             /\ req'[s].user \in {req[s].found, NoUser}
             /\ ~Matched(req[s]) => (Anonymous(req'[s]) /\ issued' = issued)
      ]_vars

\* getActiveUser has answered Anonymous for a refresh cookie that verified
\* and named a stored user whose count had moved on
C17_Witness ==
    \E s \in Slots :
        /\ Anonymous(req[s])
        /\ req[s].data.ok
        /\ req[s].found # NoUser
        /\ req[s].found.count # req[s].data.count

(***************************************************************************)
(* C18: every stored count is a non-negative integer, a new user starts at *)
(* 0, no step lowers the count of a user, and only the step of             *)
(* invalidateTokens changes the count of an existing user.                 *)
(***************************************************************************)
C18_CountMonotonic ==
    [][/\ Len(users') >= Len(users)
       /\ \A i \in 1..Len(users') : users'[i].count \in Nat
       /\ \A i \in (1..Len(users')) \ (1..Len(users)) : users'[i].count = 0
       /\ \A i \in 1..Len(users) :
            /\ users'[i].count >= users[i].count
            /\ users'[i].count # users[i].count =>
                 \E s \in Slots : InvalidateStep(s) /\ req[s].user._id = users[i]._id
      ]_vars

(***************************************************************************)
(* C19: an access token issued for u at time t verifies to u at every time *)
(* before t + 15 minutes and is invalid at every time after; a refresh     *)
(* token issued for (u, c) at time t verifies to exactly (u, c) at every   *)
(* time before t + 7 days and is invalid after; an expired token neither   *)
(* authenticates (as bearer token or access cookie) nor starts a rotation  *)
(* or a refresh.                                                           *)
(***************************************************************************)
AsBearer(tok) == getActiveUser([IdleReq EXCEPT !.pc = "auth", !.bearer = tok], now)
AsAccessCookie(tok) ==
    getActiveUser([IdleReq EXCEPT !.pc = "auth", !.accessCookie = tok], now)
AsRefreshCookie(tok) ==
    getActiveUser([IdleReq EXCEPT !.pc = "auth", !.refreshCookie = tok], now)

C19_TimeBounded ==
    \A tok \in issued :
        /\ IsAccessToken(tok) =>
             /\ now < tok.iat + 15 * 60 =>
                  /\ verifyAccessToken(tok, now).ok
                  /\ verifyAccessToken(tok, now).userId = tok.userId
                  /\ AsBearer(tok).user = StoredUser(users, tok.userId)
                  /\ AsAccessCookie(tok).user = StoredUser(users, tok.userId)
             /\ now > tok.iat + 15 * 60 =>
                  /\ verifyAccessToken(tok, now) = Invalid
                  /\ Anonymous(AsBearer(tok))
                  /\ Anonymous(AsAccessCookie(tok))
        /\ IsRefreshToken(tok) =>
             /\ now < tok.iat + 7 * 24 * 60 * 60 =>
                  /\ verifyRefreshToken(tok, now).ok
                  /\ verifyRefreshToken(tok, now).userId = tok.userId
                  /\ verifyRefreshToken(tok, now).count = tok.count
                  /\ AsRefreshCookie(tok).pc = "rotate"
             /\ now > tok.iat + 7 * 24 * 60 * 60 =>
                  /\ verifyRefreshToken(tok, now) = Invalid
                  /\ Anonymous(AsRefreshCookie(tok))
                  /\ ~RefreshHonors(tok)
                  /\ ~RotationHonors(tok)

\* one second after its expiry an access token is presented as bearer token
\* and rejected, while the refresh token issued with it is still honored
C19_Witness ==
    \E s \in Slots :
        /\ req[s].pc = "auth"
        /\ IsAccessToken(req[s].bearer)
        /\ now = req[s].bearer.exp + 1
        /\ Anonymous(getActiveUser(req[s], now))
        /\ \E tok \in issued :
             /\ IsRefreshToken(tok) /\ tok.iat = req[s].bearer.iat
             /\ RefreshHonors(tok)

(***************************************************************************)
(* C20: token kinds are not interchangeable, whatever the two secrets: a   *)
(* refresh token in the Authorization header or in the access-token cookie *)
(* never authenticates, and an access token in the refresh-token cookie or *)
(* given to refreshTokens never gets tokens issued.                        *)
(***************************************************************************)
\* payloads as the server signs them: a refresh token carries a count
RefreshKind(tok) == tok \in issued /\ tok.count # NoCount
AccessKind(tok) == tok \in issued /\ tok.count = NoCount

C20_KindsNotInterchangeable ==
    [][\A s \in Slots :
        /\ (Leaves(s, "auth") /\ RefreshKind(req[s].bearer)) =>
             req'[s].user = NoUser
        /\ ( /\ Leaves(s, "auth") /\ req[s].bearer = NoToken
             /\ RefreshKind(req[s].accessCookie) ) =>
               (req'[s].pc = "resolve" => req'[s].user = NoUser)
        /\ ( /\ Leaves(s, "auth") /\ req[s].bearer = NoToken
             /\ AccessKind(req[s].refreshCookie)
             /\ req'[s].pc = "rotate" ) =>
               rotateTokens(req'[s], now).setCookie = NoCookies
        /\ (Leaves(s, "rotate") /\ req[s].data.count = NoCount) =>
             (issued' = issued /\ req'[s].setCookie = NoCookies /\ req'[s].user = NoUser)
        /\ (Leaves(s, "issue") /\ req[s].data.count = NoCount) =>
             (issued' = issued /\ req'[s].result = NullResult)
      ]_vars

(***************************************************************************)
(* C21: a request whose session is Authenticated is denied signIn, signUp  *)
(* and refreshTokens, and a request whose session is Anonymous is denied   *)
(* me and invalidateTokens; a denied operation changes neither the user    *)
(* store nor the response's cookies, and issues no token.  The operations  *)
(* of the other session state are not denied.                              *)
(***************************************************************************)
AnonymousOnly == {"signIn", "signUp", "refreshTokens"}
AuthenticatedOnly == {"me", "invalidateTokens"}

DeniedStep(s) ==
    /\ req'[s].pc = "done"
    /\ req'[s].result = NotAuthorised
    /\ users' = users
    /\ issued' = issued
    /\ req'[s].setCookie = req[s].setCookie

C21_PermissionGating ==
    [][\A s \in Slots :
        Leaves(s, "resolve") =>
            /\ req'[s].op \in Ops
            /\ req'[s].user = req[s].user
            /\ (req[s].user # NoUser /\ req'[s].op \in AnonymousOnly) => DeniedStep(s)
            /\ (req[s].user = NoUser /\ req'[s].op \in AuthenticatedOnly) => DeniedStep(s)
            /\ (req[s].user # NoUser /\ req'[s].op \in AuthenticatedOnly) =>
                 req'[s].result # NotAuthorised
            /\ (req[s].user = NoUser /\ req'[s].op \in AnonymousOnly) =>
                 req'[s].result # NotAuthorised
            /\ req'[s].result = NotAuthorised => DeniedStep(s)
      ]_vars

\* an Authenticated session has been denied a sign-in operation, keeping the
\* cookies its rotation wrote, and an Anonymous session has been denied me
\* or invalidateTokens
C21_Witness ==
    \E s1, s2 \in Slots :
        /\ req[s1].pc = "done" /\ req[s1].result = NotAuthorised
        /\ req[s1].user # NoUser /\ req[s1].op \in AnonymousOnly
        /\ req[s1].setCookie # NoCookies
        /\ req[s2].pc = "done" /\ req[s2].result = NotAuthorised
        /\ req[s2].user = NoUser /\ req[s2].op \in AuthenticatedOnly
        /\ req[s2].setCookie = NoCookies

(***************************************************************************)
(* C22: no cross-user authentication.  getActiveUser returns user u only   *)
(* if the request carried a token the server issued for u's id: the bearer *)
(* token or access cookie at its first step, the refresh cookie at a       *)
(* rotation.  Every token issued by a rotation or by refreshTokens carries *)
(* the user id of the refresh token presented, which the server issued;    *)
(* and every issued token names a stored user.                             *)
(***************************************************************************)
IssuedFor(tok, user) == tok \in issued /\ tok.userId = toHexString(user._id)

C22_NoCrossUser ==
    [][/\ \A tok \in issued : StoredUser(users, tok.userId) # NoUser
       /\ \A s \in Slots :
            /\ (Leaves(s, "auth") /\ req'[s].user # NoUser) =>
                 /\ req'[s].user \in StoredUsers
                 /\ IF req[s].bearer # NoToken
                    THEN IssuedFor(req[s].bearer, req'[s].user)
                    ELSE IssuedFor(req[s].accessCookie, req'[s].user)
            /\ (Leaves(s, "auth") /\ req'[s].pc = "rotate") =>
                 /\ req[s].refreshCookie \in issued
                 /\ TokenOf(req'[s].data) = req[s].refreshCookie
            /\ (Leaves(s, "rotate") /\ req'[s].user # NoUser) =>
                 /\ IssuedFor(TokenOf(req[s].data), req'[s].user)
                 /\ \A tok \in CookieTokens(req'[s].setCookie) :
                      tok.userId = req[s].data.userId
            /\ Leaves(s, "rotate") =>
                 issued' \subseteq issued \cup CookieTokens(req'[s].setCookie)
            /\ (RefreshTokensStep(s) /\ req'[s].pc = "issue") =>
                 TokenOf(req'[s].data) \in issued
            /\ Leaves(s, "issue") =>
                 /\ TokenOf(req[s].data) \in issued
                 /\ issued' \subseteq issued \cup PayloadTokens(req'[s].result)
                 /\ \A tok \in PayloadTokens(req'[s].result) :
                      tok.userId = req[s].data.userId
      ]_vars

\* with two users stored, a rotation on the second user's refresh cookie has
\* returned the second user and written cookies for the second user
C22_Witness ==
    \E s \in Slots :
        /\ Len(users) = 2
        /\ req[s].pc = "resolve"
        /\ req[s].data.ok /\ req[s].data.userId = toHexString(users[2]._id)
        /\ req[s].user = users[2]
        /\ req[s].setCookie # NoCookies
        /\ \A tok \in CookieTokens(req[s].setCookie) : IssuedFor(tok, users[2])

=============================================================================
